---- MODULE Spec2Model ----
(***************************************************************************)
(* BiasAdd<T>::Compute of mace/ops/ref/bias_add.cc as a state machine.     *)
(*                                                                         *)
(* One behaviour is one call of Compute.  Init chooses the arguments (the  *)
(* input tensor, the bias tensor or null, the output tensor, which may be  *)
(* the input itself, and the layout flag); every action is one step of the *)
(* call: the guards, the resize, the copy, the dispatch and each iteration *)
(* of the loops of AddBiasNCHW and AddBiasNHWC.                            *)
(*                                                                         *)
(* Element values are integers and + is exact: the rounding of float,      *)
(* half and bfloat16 is outside this model.  Flat indices are 0-based as   *)
(* in the code; a tensor's data is a sequence, so element p is data[p+1].  *)
(***************************************************************************)
EXTENDS Integers, Sequences, FiniteSets, TLC

(* ------------------------------ bounds --------------------------------- *)

\* largest size of one dimension of a tensor
MaxDim == 2
\* largest number of elements of the input tensor (and of the bias tensor)
MaxElems == 4
\* largest first element of an input tensor
MaxVal == 1

(* --------------------------- values and shapes -------------------------- *)

\* std::accumulate(first, last, 1, std::multiplies<index_t>())
RECURSIVE Prod(_)
Prod(s) == IF s = <<>> THEN 1 ELSE Head(s) * Prod(Tail(s))

\* content of storage that ResizeLike allocated and nothing wrote yet
Uninit == 0 - 1
\* content of the output tensor left by an earlier use of it
Stale == 0 - 2

\* the bias values: 0 and a value larger than every input element, so that
\* input[p] + bias[j] tells both p's value and j's value
BiasStep == MaxVal + MaxElems
BiasVals == {0, BiasStep}

\* what a read past the end of the bias buffer can return
Garbage == BiasVals

NullTensor == [shape |-> <<>>, data |-> <<>>]

Shapes(rank) == {s \in [1..rank -> 1..MaxDim] : Prod(s) <= MaxElems}

\* channel-major inputs are (batch, channels, height, width); channel-last
\* inputs are (batch, middle dimensions..., channels)
InputShapes(nchw) == IF nchw THEN Shapes(4) ELSE Shapes(2) \cup Shapes(3) \cup Shapes(4)

\* input contents: constant tensors and ramps (every element different)
InputData(n) == {[p \in 1..n |-> s + (p - 1) * d] : s \in 0..MaxVal, d \in 0..1}

InputTensors(nchw) ==
    UNION {{[shape |-> s, data |-> d] : d \in InputData(Prod(s))} : s \in InputShapes(nchw)}

\* the channel dimension of an input: index 1 (NCHW) or the last one (NHWC)
ChannelsOf(nchw, shape) == IF nchw THEN shape[2] ELSE shape[Len(shape)]

\* a bias is rank 1 (channels) or rank 2 (anything x channels): the code
\* checks the leading dimension of a rank-2 bias on the NHWC path only
BiasShapes(ch) == {<<ch>>} \cup {<<bb, ch>> : bb \in {x \in 1..MaxDim : x * ch <= MaxElems}}

BiasTensors(ch) ==
    UNION {{[shape |-> s, data |-> d] : d \in [1..Prod(s) -> BiasVals]} : s \in BiasShapes(ch)}

\* an output tensor distinct from the input arrives with a prior shape and
\* prior contents
PriorOutputs == {[shape |-> <<n>>, data |-> [p \in 1..n |-> Stale]] : n \in {1, MaxElems}}

GuardNames == {"input_guard", "bias_guard", "output_guard"}

NoLocals == [b |-> 0, c |-> 0, i |-> 0, hw |-> 0, pos |-> 0, bias |-> 0, biasRef |-> 0]

(* ------------------------------ state ----------------------------------- *)

VARIABLES
    pc,        \* position of the call
    tensors,   \* the tensor objects: "input", "bias", "output"
    inputP,    \* the argument input: always the object "input"
    biasP,     \* the argument bias: the object "bias" or "null"
    outputP,   \* the argument output: the object "output" or "input"
    isNCHW,    \* the argument isNCHW
    status,    \* the MaceStatus returned, "none" before the return
    held,      \* the MappingGuards that hold a mapping
    loc,       \* the locals of AddBiasNCHW / AddBiasNHWC
    resize,    \* outcome of output->ResizeLike(input): "none", "ok", "failed"
    copies,    \* number of calls of output->Copy
    written,   \* flat indices the layout routines stored to
    acquired,  \* the MappingGuards that ever took a mapping
    in0,       \* the tensor objects as they were when Compute was called
    shadow     \* output of the same call made out of place on in0

vars == <<pc, tensors, inputP, biasP, outputP, isNCHW, status, held, loc,
          resize, copies, written, acquired, in0, shadow>>

args == <<inputP, biasP, outputP, isNCHW, in0>>

Init ==
    \E nchw \in BOOLEAN :
    \E inp \in InputTensors(nchw) :
    \E bt \in {NullTensor} \cup BiasTensors(ChannelsOf(nchw, inp.shape)) :
    \E out \in {NullTensor} \cup PriorOutputs :
        /\ isNCHW = nchw
        /\ inputP = "input"
        /\ biasP = IF bt = NullTensor THEN "null" ELSE "bias"
        /\ outputP = IF out = NullTensor THEN "input" ELSE "output"
        /\ tensors = [t \in {"input", "bias", "output"} |->
                         IF t = "input" THEN inp ELSE IF t = "bias" THEN bt ELSE out]
        /\ in0 = tensors
        /\ pc = "entry"
        /\ status = "none"
        /\ held = {}
        /\ acquired = {}
        /\ loc = NoLocals
        /\ resize = "none"
        /\ copies = 0
        /\ written = {}
        /\ shadow = IF out = NullTensor /\ bt # NullTensor
                    THEN [p \in 1..Len(inp.data) |-> Uninit]
                    ELSE <<>>

(* ------------------- the collaborators of Compute ----------------------- *)

\* Tensor::ResizeLike(other), when it succeeds: the tensor takes other's
\* shape; elements the old buffer had are kept, the rest is unwritten
TensorResizeLike(t, like) ==
    [shape |-> like.shape,
     data  |-> [p \in 1..Prod(like.shape) |->
                   IF p <= Len(t.data) THEN t.data[p] ELSE Uninit]]

\* Tensor::Copy(src): the elements of src, verbatim
TensorCopy(dst, src) == [shape |-> dst.shape, data |-> src.data]

\* Tensor::MappingGuard guard(tensor): maps the tensor unless it is null
MappingGuard(h, guard, tensorP) == IF tensorP = "null" THEN h ELSE h \cup {guard}

\* the end of the scope of `guards`: each releases the mapping it holds
ScopeExit(h, guards) == h \ guards

(* ----------------------------- Compute ---------------------------------- *)

\* mutant: the two arguments are never taken for the same object
SameObject_never(p, q) == FALSE

\* input != output, negated
SameObject(p, q) == p = q

BiasAbsent == biasP = "null"

\* the routine the layout flag selects
Routine == IF isNCHW THEN "nchw" ELSE "nhwc"

\* Tensor::MappingGuard input_guard(input); Tensor::MappingGuard bias_guard(bias);
Enter ==
    /\ pc = "entry"
    /\ held' = MappingGuard(MappingGuard(held, "input_guard", inputP), "bias_guard", biasP)
    /\ acquired' = acquired \cup held'
    /\ pc' = "branch"
    /\ UNCHANGED <<tensors, args, status, loc, resize, copies, written, shadow>>

\* output->ResizeLike(input) succeeds
ResizeOk ==
    /\ pc = "branch"
    /\ ~SameObject(inputP, outputP)
    /\ tensors' = [tensors EXCEPT ![outputP] = TensorResizeLike(@, tensors[inputP])]
    /\ resize' = "ok"
    /\ pc' = "resized"
    /\ UNCHANGED <<args, status, held, acquired, loc, copies, written, shadow>>

\* mutant: the status of ResizeLike is dropped and the call goes on
ResizeError_ignored ==
    /\ pc = "branch"
    /\ ~SameObject(inputP, outputP)
    /\ resize' = "failed"
    /\ pc' = "resized"
    /\ UNCHANGED <<tensors, args, status, held, acquired, loc, copies, written, shadow>>

\* mutant: the early return leaves the mappings of input and bias in place
ResizeError_leak ==
    /\ pc = "branch"
    /\ ~SameObject(inputP, outputP)
    /\ resize' = "failed"
    /\ status' = "MACE_OUT_OF_RESOURCES"
    /\ pc' = "done"
    /\ UNCHANGED <<tensors, args, held, acquired, loc, copies, written, shadow>>

\* output->ResizeLike(input) fails: MACE_RETURN_IF_ERROR returns its status,
\* and input_guard and bias_guard go out of scope
ResizeError ==
    /\ pc = "branch"
    /\ ~SameObject(inputP, outputP)
    /\ resize' = "failed"
    /\ status' = "MACE_OUT_OF_RESOURCES"
    /\ held' = ScopeExit(held, {"input_guard", "bias_guard"})
    /\ pc' = "done"
    /\ UNCHANGED <<tensors, args, acquired, loc, copies, written, shadow>>

\* mutant: the branch for an absent bias does not copy
CopyInput_skipped ==
    /\ pc = "resized"
    /\ BiasAbsent
    /\ pc' = "ret"
    /\ UNCHANGED <<tensors, args, status, held, acquired, loc, resize, copies, written, shadow>>

\* if (bias == nullptr) output->Copy(*input);
CopyInput ==
    /\ pc = "resized"
    /\ BiasAbsent
    /\ tensors' = [tensors EXCEPT ![outputP] = TensorCopy(@, tensors[inputP])]
    /\ copies' = copies + 1
    /\ pc' = "ret"
    /\ UNCHANGED <<args, status, held, acquired, loc, resize, written, shadow>>

\* else { Tensor::MappingGuard output_guard(output); if (isNCHW) ... else ... }
DispatchOutOfPlace ==
    /\ pc = "resized"
    /\ ~BiasAbsent
    /\ held' = MappingGuard(held, "output_guard", outputP)
    /\ acquired' = acquired \cup held'
    /\ pc' = Routine
    /\ UNCHANGED <<tensors, args, status, loc, resize, copies, written, shadow>>

\* input == output and bias == nullptr: nothing to do
InPlaceNoBias ==
    /\ pc = "branch"
    /\ SameObject(inputP, outputP)
    /\ BiasAbsent
    /\ pc' = "ret"
    /\ UNCHANGED <<tensors, args, status, held, acquired, loc, resize, copies, written, shadow>>

\* input == output and bias != nullptr: the routine runs on the one tensor
DispatchInPlace ==
    /\ pc = "branch"
    /\ SameObject(inputP, outputP)
    /\ ~BiasAbsent
    /\ pc' = Routine
    /\ UNCHANGED <<tensors, args, status, held, acquired, loc, resize, copies, written, shadow>>

\* return MaceStatus::MACE_SUCCESS; output_guard's scope has ended, and
\* input_guard and bias_guard go out of scope
Return ==
    /\ pc = "ret"
    /\ status' = "MACE_SUCCESS"
    /\ held' = ScopeExit(ScopeExit(held, {"output_guard"}), {"input_guard", "bias_guard"})
    /\ pc' = "done"
    /\ UNCHANGED <<tensors, args, acquired, loc, resize, copies, written, shadow>>

(* ---------------------- stores and the reference ------------------------ *)

\* mutant: the store goes to the input tensor's buffer
WriteElem_toInput(ts, outP, pos, v) == [ts EXCEPT !["input"].data[pos + 1] = v]

\* output_data[pos] = v, output_data being output->mutable_data<T>()
WriteElem(ts, outP, pos, v) == [ts EXCEPT ![outP].data[pos + 1] = v]

\* input_data[pos], input_data being input->data<T>(): the storage as it is now
ReadInput(pos) == tensors[inputP].data[pos + 1]

\* the same store in the reference call (distinct output, input holding in0):
\* kept for the in-place calls only
ShadowWrite(pos, biasValue) ==
    IF shadow = <<>> THEN shadow
    ELSE [shadow EXCEPT ![pos + 1] = in0[inputP].data[pos + 1] + biasValue]

(* --------------------------- AddBiasNCHW -------------------------------- *)

\* input->dim(0), input->dim(1), output->dim(2) * output->dim(3)
NCHWBatch == tensors[inputP].shape[1]
NCHWChannels == tensors[inputP].shape[2]
ImageSize == tensors[outputP].shape[3] * tensors[outputP].shape[4]

\* auto bias_b = bias->dim_size() == 1 ? 0 : bias->shape()[1];
BiasB(bias) == IF Len(bias.shape) = 1 THEN 0 ELSE bias.shape[2]

\* mutant: the offset of slab (b, c) leaves out the size of the slab
NCHWOffset_noImageSize(b, c, channels, image_size) == b * channels + c

\* const index_t offset = (b * channels + c) * image_size;
NCHWOffset(b, c, channels, image_size) == (b * channels + c) * image_size

\* the index of the bias element read for channel c
NCHWBiasIndex(bias, channels, c) == BiasB(bias) * channels + c

\* the locals of AddBiasNCHW, before the loops
NCHWEnter ==
    /\ pc = "nchw"
    /\ loc' = NoLocals
    /\ pc' = "nchw_bc"
    /\ UNCHANGED <<tensors, args, status, held, acquired, resize, copies, written, shadow>>

\* const float bias = bias_data[bias_b * channels + c]; the index is inside
\* the bias buffer
NCHWReadBias ==
    /\ pc = "nchw_bc"
    /\ LET idx == NCHWBiasIndex(tensors[biasP], NCHWChannels, loc.c)
       IN  /\ idx < Len(tensors[biasP].data)
           /\ loc' = [loc EXCEPT !.i = 0,
                                 !.bias = tensors[biasP].data[idx + 1],
                                 !.biasRef = in0[biasP].data[idx + 1]]
    /\ pc' = "nchw_i"
    /\ UNCHANGED <<tensors, args, status, held, acquired, resize, copies, written, shadow>>

\* the same read with the index past the end of the bias buffer: undefined
\* behaviour; the read returns whatever lies there, and the reference call
\* reads what lies there in its own run
NCHWReadBiasPastEnd ==
    /\ pc = "nchw_bc"
    /\ NCHWBiasIndex(tensors[biasP], NCHWChannels, loc.c) >= Len(tensors[biasP].data)
    /\ \E g \in Garbage, gRef \in (IF shadow = <<>> THEN {0} ELSE Garbage) :
           loc' = [loc EXCEPT !.i = 0, !.bias = g, !.biasRef = gRef]
    /\ pc' = "nchw_i"
    /\ UNCHANGED <<tensors, args, status, held, acquired, resize, copies, written, shadow>>

\* the same read faults (an unmapped page, a checked build)
NCHWReadBiasFault ==
    /\ pc = "nchw_bc"
    /\ NCHWBiasIndex(tensors[biasP], NCHWChannels, loc.c) >= Len(tensors[biasP].data)
    /\ pc' = "fault"
    /\ UNCHANGED <<tensors, args, status, held, acquired, loc, resize, copies, written, shadow>>

\* (*output_ptr++) = (*input_ptr++) + bias; and the loop increments after it
NCHWInner ==
    /\ pc = "nchw_i"
    /\ LET pos      == NCHWOffset(loc.b, loc.c, NCHWChannels, ImageSize) + loc.i
           lastI    == loc.i + 1 >= ImageSize
           lastC    == loc.c + 1 >= NCHWChannels
           lastB    == loc.b + 1 >= NCHWBatch
       IN  /\ tensors' = WriteElem(tensors, outputP, pos, ReadInput(pos) + loc.bias)
           /\ written' = written \cup {pos}
           /\ shadow' = ShadowWrite(pos, loc.biasRef)
           /\ loc' = IF ~lastI THEN [loc EXCEPT !.i = @ + 1]
                     ELSE IF ~lastC THEN [loc EXCEPT !.i = 0, !.c = @ + 1]
                     ELSE [loc EXCEPT !.i = 0, !.c = 0, !.b = @ + 1]
           /\ pc' = IF ~lastI THEN "nchw_i"
                    ELSE IF lastC /\ lastB THEN "ret"
                    ELSE "nchw_bc"
    /\ UNCHANGED <<args, status, held, acquired, resize, copies>>

(* --------------------------- AddBiasNHWC -------------------------------- *)

\* const index_t channels = *shape.rbegin();
NHWCChannels == tensors[inputP].shape[Len(tensors[inputP].shape)]

\* std::accumulate(shape.begin(), shape.end() - 1, 1, std::multiplies<index_t>())
FusedBatch(shape) == Prod(SubSeq(shape, 1, Len(shape) - 1))

\* std::accumulate(shape.begin() + 1, shape.end() - 1, 1, std::multiplies<index_t>())
FusedHW(shape) == Prod(SubSeq(shape, 2, Len(shape) - 1))

\* mutant: the check of the bias's leading dimension is compiled out
BatchMatches_unchecked(shape, bias) == TRUE

\* MACE_CHECK(batch == bias->shape()[0]);
BatchMatches(shape, bias) == shape[1] = bias.shape[1]

\* mutant: every batch takes the first row of the bias
NHWCBiasOffset_firstRow(b, channels) == 0

\* auto bias_offset = b * channels;
NHWCBiasOffset(b, channels) == b * channels

\* index_t offset = b * fused_hw; index_t pos = (offset + hw) * channels;
NHWCPos(b, hw, fused_hw, channels) == (b * fused_hw + hw) * channels

\* if (bias->dim_size() == 1) { ... index_t pos = 0;
NHWCEnterRank1 ==
    /\ pc = "nhwc"
    /\ Len(tensors[biasP].shape) = 1
    /\ loc' = NoLocals
    /\ pc' = "nhwc1"
    /\ UNCHANGED <<tensors, args, status, held, acquired, resize, copies, written, shadow>>

\* } else { const auto batch = shape[0]; MACE_CHECK(...) passes
NHWCEnterRank2 ==
    /\ pc = "nhwc"
    /\ Len(tensors[biasP].shape) # 1
    /\ BatchMatches(tensors[inputP].shape, tensors[biasP])
    /\ loc' = NoLocals
    /\ pc' = "nhwc2"
    /\ UNCHANGED <<tensors, args, status, held, acquired, resize, copies, written, shadow>>

\* MACE_CHECK(batch == bias->shape()[0]) fails: the process aborts, no
\* destructor runs
NHWCCheckFail ==
    /\ pc = "nhwc"
    /\ Len(tensors[biasP].shape) # 1
    /\ ~BatchMatches(tensors[inputP].shape, tensors[biasP])
    /\ pc' = "fatal"
    /\ UNCHANGED <<tensors, args, status, held, acquired, loc, resize, copies, written, shadow>>

\* output_data[pos] = input_data[pos] + bias_data[c]; then ++c, ++pos, and
\* ++b when the channels are done
NHWCStepRank1 ==
    /\ pc = "nhwc1"
    /\ LET biasValue == tensors[biasP].data[loc.c + 1]
           lastC == loc.c + 1 >= NHWCChannels
           lastB == loc.b + 1 >= FusedBatch(tensors[inputP].shape)
       IN  /\ tensors' = WriteElem(tensors, outputP, loc.pos, ReadInput(loc.pos) + biasValue)
           /\ written' = written \cup {loc.pos}
           /\ shadow' = ShadowWrite(loc.pos, in0[biasP].data[loc.c + 1])
           /\ loc' = IF ~lastC THEN [loc EXCEPT !.c = @ + 1, !.pos = @ + 1]
                     ELSE [loc EXCEPT !.c = 0, !.b = @ + 1, !.pos = @ + 1]
           /\ pc' = IF lastC /\ lastB THEN "ret" ELSE "nhwc1"
    /\ UNCHANGED <<args, status, held, acquired, resize, copies>>

\* output_data[pos] = input_data[pos] + bias_data[bias_offset + c]; then ++c,
\* ++pos; ++hw and ++b recompute pos
NHWCStepRank2 ==
    /\ pc = "nhwc2"
    /\ LET channels == NHWCChannels
           fused_hw == FusedHW(tensors[inputP].shape)
           batch    == tensors[inputP].shape[1]
           pos      == IF loc.c = 0 THEN NHWCPos(loc.b, loc.hw, fused_hw, channels)
                       ELSE loc.pos
           idx      == NHWCBiasOffset(loc.b, channels) + loc.c
           lastC    == loc.c + 1 >= channels
           lastHW   == loc.hw + 1 >= fused_hw
           lastB    == loc.b + 1 >= batch
       IN  /\ tensors' = WriteElem(tensors, outputP, pos,
                                   ReadInput(pos) + tensors[biasP].data[idx + 1])
           /\ written' = written \cup {pos}
           /\ shadow' = ShadowWrite(pos, in0[biasP].data[idx + 1])
           /\ loc' = IF ~lastC THEN [loc EXCEPT !.c = @ + 1, !.pos = pos + 1]
                     ELSE IF ~lastHW THEN [loc EXCEPT !.c = 0, !.hw = @ + 1, !.pos = pos + 1]
                     ELSE [loc EXCEPT !.c = 0, !.hw = 0, !.b = @ + 1, !.pos = pos + 1]
           /\ pc' = IF lastC /\ lastHW /\ lastB THEN "ret" ELSE "nhwc2"
    /\ UNCHANGED <<args, status, held, acquired, resize, copies>>

(* --------------------------- specification ------------------------------ *)

Next ==
    \/ Enter
    \/ ResizeOk
    \/ ResizeError
    \/ CopyInput
    \/ DispatchOutOfPlace
    \/ InPlaceNoBias
    \/ DispatchInPlace
    \/ Return
    \/ NCHWEnter
    \/ NCHWReadBias
    \/ NCHWReadBiasPastEnd
    \/ NCHWReadBiasFault
    \/ NCHWInner
    \/ NHWCEnterRank1
    \/ NHWCEnterRank2
    \/ NHWCCheckFail
    \/ NHWCStepRank1
    \/ NHWCStepRank2

Spec == Init /\ [][Next]_vars

(* ----------------------- vocabulary of the claims ----------------------- *)

\* the input and the bias as the caller passed them, and the output now
X == in0[inputP]
B0 == in0["bias"]
Out == tensors[outputP]

Returned == pc = "done"
Succeeded == pc = "done" /\ status = "MACE_SUCCESS"
InPlace == outputP = inputP
BiasRank == IF biasP = "null" THEN 0 ELSE Len(B0.shape)
NumElems == Len(X.data)
\* batch and channel dimension of the input, as the layout flag reads them
Batch == X.shape[1]
Channels == IF isNCHW THEN X.shape[2] ELSE X.shape[Len(X.shape)]
\* the elements of one (batch, channel) slab, or of all middle dimensions
Spatial == NumElems \div (Batch * Channels)
\* a rank-2 bias of shape (batch, channels)
BatchedBias == BiasRank = 2 /\ B0.shape = <<Batch, Channels>>

(* ------------------------------- C1 ------------------------------------- *)

\* C1: channel-major, rank-2 (batch x channels) bias: after a successful
\* Compute, output[(b*channels + c)*height*width + i] =
\* input[(b*channels + c)*height*width + i] + bias[b*channels + c] for every
\* b, c, i: batch b is offset by row b of the bias.
C1_BatchedBiasNCHW ==
    (Succeeded /\ isNCHW /\ BatchedBias) =>
        \A b \in 0..(Batch - 1), c \in 0..(Channels - 1), i \in 0..(Spatial - 1) :
            LET p == (b * Channels + c) * Spatial + i
            IN  Out.data[p + 1] = X.data[p + 1] + B0.data[b * Channels + c + 1]

(* ------------------------------- C2 ------------------------------------- *)

\* C2: channel-major, rank-1 bias of length channels: after a successful
\* Compute, output[(b*channels + c)*height*width + i] =
\* input[(b*channels + c)*height*width + i] + bias[c] for every b, c, i.
C2_Rank1BiasNCHW ==
    (Succeeded /\ isNCHW /\ BiasRank = 1) =>
        \A b \in 0..(Batch - 1), c \in 0..(Channels - 1), i \in 0..(Spatial - 1) :
            LET p == (b * Channels + c) * Spatial + i
            IN  Out.data[p + 1] = X.data[p + 1] + B0.data[c + 1]

\* a finished channel-major call with two channels of 2 elements each whose
\* bias values differ, on a ramp
C2_Witness ==
    /\ Succeeded /\ isNCHW /\ BiasRank = 1
    /\ Channels = 2 /\ Spatial = 2
    /\ B0.data[1] # B0.data[2]
    /\ X.data[1] # X.data[2]

(* ------------------------------- C3 ------------------------------------- *)

\* C3: channel-last: after a successful Compute every flat index p has
\* output[p] = input[p] + bias[k*channels + (p mod channels)], with k = 0 for
\* a rank-1 bias and k = p div (fused_hw*channels), the batch index of p, for
\* a rank-2 bias whose leading dimension is the input's batch dimension.
C3_ChannelLast ==
    (Succeeded /\ ~isNCHW /\ (BiasRank = 1 \/ BatchedBias)) =>
        \A p \in 0..(NumElems - 1) :
            LET k == IF BiasRank = 1 THEN 0 ELSE p \div (Spatial * Channels)
            IN  Out.data[p + 1] = X.data[p + 1] + B0.data[k * Channels + (p % Channels) + 1]

\* a finished channel-last call on two batches of two positions with a
\* rank-2 bias whose rows differ
C3_Witness ==
    /\ Succeeded /\ ~isNCHW /\ BatchedBias
    /\ Batch = 2 /\ Spatial = 2
    /\ B0.data[1] # B0.data[Channels + 1]
    /\ X.data[1] # X.data[2]

(* ------------------------------- C4 ------------------------------------- *)

\* C4: absent bias, output a distinct object, resize successful: Compute
\* returns success and leaves output with the input's shape and
\* output[p] = input[p] for every p, for either layout.
C4_IdentityAbsentBias ==
    (Returned /\ ~InPlace /\ biasP = "null" /\ resize = "ok") =>
        /\ status = "MACE_SUCCESS"
        /\ Out.shape = X.shape
        /\ Out.data = X.data

\* such a call has returned, and the output came in with another shape
C4_Witness ==
    /\ Returned /\ ~InPlace /\ biasP = "null" /\ resize = "ok"
    /\ in0[outputP].shape # X.shape
    /\ copies = 1
    /\ NumElems > 1

(* ------------------------------- C5 ------------------------------------- *)

\* C5: when output is a distinct object and ResizeLike(input) fails, Compute
\* returns that failure (never success) and writes nothing to output: no
\* copy and no store of a layout routine, for any bias and either layout.
C5_ResizeFailure ==
    (resize = "failed") =>
        /\ pc = "done"
        /\ status = "MACE_OUT_OF_RESOURCES"
        /\ copies = 0
        /\ written = {}
        /\ tensors = in0

\* the early return happened in a call that had a bias to add
C5_Witness == resize = "failed" /\ pc = "done" /\ ~InPlace /\ biasP # "null"

(* ------------------------------- C6 ------------------------------------- *)

\* C6: input and output the same object, bias absent: no resize, no copy, no
\* store; the tensor's shape and elements stay as they were, and Compute
\* returns success, for either layout.
C6_InPlaceNoOp ==
    (InPlace /\ biasP = "null") =>
        /\ resize = "none"
        /\ copies = 0
        /\ written = {}
        /\ tensors = in0
        /\ Returned => status = "MACE_SUCCESS"

\* such a call has returned
C6_Witness == Returned /\ InPlace /\ biasP = "null" /\ NumElems > 1

(* ------------------------------- C7 ------------------------------------- *)

\* a channel-last call with a rank-2 bias whose leading dimension is not the
\* input's batch dimension
Mismatch == ~isNCHW /\ BiasRank = 2 /\ B0.shape[1] # Batch

\* C7: in such a call the fatal check is reached before the addition stores
\* anything, and the call never returns success: the loops are never
\* entered, nothing is stored, and a return is the failure of the resize.
C7_MismatchFatal ==
    Mismatch =>
        /\ written = {}
        /\ pc \notin {"nhwc1", "nhwc2", "ret"}
        /\ status # "MACE_SUCCESS"
        /\ Returned => resize = "failed"

\* the fatal check has fired, after the output was resized
C7_Witness == Mismatch /\ pc = "fatal" /\ resize = "ok" /\ written = {}

(* ------------------------------- C8 ------------------------------------- *)

\* C8: whenever Compute has returned (success or the early return of the
\* failed resize), no MappingGuard acquired in the call still holds its
\* mapping.
C8_GuardsReleased == Returned => held = {}

\* a successful call that acquired all three guards has returned
C8_Witness == Succeeded /\ acquired = GuardNames /\ held = {}

(* ------------------------------- C9 ------------------------------------- *)

ValidBias == (BiasRank = 1 /\ B0.shape = <<Channels>>) \/ BatchedBias

\* C10: for a valid bias and either layout, the storage an in-place call
\* leaves equals, element for element, the output of the out-of-place call
\* on the same input contents.
C10_InPlaceAgrees ==
    (Succeeded /\ InPlace /\ ValidBias) => tensors[inputP].data = shadow

\* the same, for the calls whose reads all stay inside the bias buffer
\* (rank-1 bias, channel-last, or a batched bias with batch > channels)
InPlaceAgreesInBounds ==
    (Succeeded /\ InPlace /\ ValidBias /\ (~isNCHW \/ BiasRank = 1 \/ Batch > Channels))
        => tensors[inputP].data = shadow

\* every iteration of a loop stores to an index no earlier iteration stored
\* to, so the element it reads just before is still the caller's
EachElementStoredOnce ==
    [][(pc \in {"nchw_i", "nhwc1", "nhwc2"}) =>
          (Cardinality(written') = Cardinality(written) + 1)]_vars

TypeOK ==
    /\ pc \in {"entry", "branch", "resized", "nchw", "nchw_bc", "nchw_i", "nhwc",
               "nhwc1", "nhwc2", "ret", "done", "fatal", "fault"}
    /\ status \in {"none", "MACE_SUCCESS", "MACE_OUT_OF_RESOURCES"}
    /\ held \subseteq GuardNames
    /\ acquired \subseteq GuardNames
    /\ resize \in {"none", "ok", "failed"}
    /\ copies \in 0..1
    /\ written \subseteq 0..(NumElems - 1)

====
